---- MODULE Spec2Model ----
(***************************************************************************)
(* Model of the FFIEC bulk extraction pipeline: extractor.py (form driver, *)
(* period discovery, bulk fetch, converter, per-period loop), uploader.py  *)
(* (upload loop) and pipeline.py (state file, run()).                      *)
(*                                                                         *)
(* Text is modelled as a sequence of one-character strings, so that        *)
(* split / strip / int() / replace are computed, not assumed.              *)
(***************************************************************************)
EXTENDS Integers, Sequences, FiniteSets, TLC

\* ------------------------------------------------------------------ text

Digits == <<"0", "1", "2", "3", "4", "5", "6", "7", "8", "9">>

IsDigit(c) == \E i \in 1..10 : Digits[i] = c

DigitVal(c) == (CHOOSE i \in 1..10 : Digits[i] = c) - 1

RECURSIVE LStrip(_)
LStrip(s) == IF s # <<>> /\ Head(s) = " " THEN LStrip(Tail(s)) ELSE s

RECURSIVE RStrip(_)
RStrip(s) ==
    IF s # <<>> /\ s[Len(s)] = " " THEN RStrip(SubSeq(s, 1, Len(s) - 1)) ELSE s

\* str.strip()
Strip(s) == RStrip(LStrip(s))

\* str.split(sep) for a one-character separator: always at least one part
RECURSIVE SplitFrom(_, _, _, _)
SplitFrom(s, sep, i, cur) ==
    IF i > Len(s) THEN <<cur>>
    ELSE IF s[i] = sep THEN <<cur>> \o SplitFrom(s, sep, i + 1, <<>>)
    ELSE SplitFrom(s, sep, i + 1, Append(cur, s[i]))

Split(s, sep) == SplitFrom(s, sep, 1, <<>>)

\* s.count(c)
Count(s, c) == Cardinality({i \in 1..Len(s) : s[i] = c})

\* c in s
Contains(s, c) == \E i \in 1..Len(s) : s[i] = c

\* s.replace(a, b) for one-character a, b
Replace(s, a, b) == [i \in 1..Len(s) |-> IF s[i] = a THEN b ELSE s[i]]

\* int(s) succeeds: decimal digits, surrounding blanks allowed
IntOk(s) == Strip(s) # <<>> /\ \A i \in 1..Len(Strip(s)) : IsDigit(Strip(s)[i])

RECURSIVE DigitsVal(_)
DigitsVal(s) ==
    IF s = <<>> THEN 0
    ELSE 10 * DigitsVal(SubSeq(s, 1, Len(s) - 1)) + DigitVal(s[Len(s)])

\* int(s)
IntVal(s) == DigitsVal(Strip(s))

\* str(n) for n >= 0
RECURSIVE IntStr(_)
IntStr(n) ==
    IF n < 10 THEN <<Digits[n + 1]>>
    ELSE IntStr(n \div 10) \o <<Digits[(n % 10) + 1]>>

\* seq[:n] for n >= 0
Take(seq, n) == SubSeq(seq, 1, IF n < Len(seq) THEN n ELSE Len(seq))

\* [x for x in seq if Test(x)]
RECURSIVE SelectSeqIdx(_, _, _)
SelectSeqIdx(seq, Test(_), i) ==
    IF i > Len(seq) THEN <<>>
    ELSE (IF Test(seq[i]) THEN <<seq[i]>> ELSE <<>>) \o SelectSeqIdx(seq, Test, i + 1)

Filter(seq, Test(_)) == SelectSeqIdx(seq, Test, 1)

\* list(reversed(seq))
Reverse(seq) == [i \in 1..Len(seq) |-> seq[Len(seq) + 1 - i]]

Range(seq) == {seq[i] : i \in 1..Len(seq)}

\* F(v) with v evaluated once (a local variable assignment)
Bind(v, F(_)) == CHOOSE r \in {F(x) : x \in {v}} : TRUE

\* ------------------------------------------------- ASP.NET form helpers
\* A page is [selects, radios, submits, vs]; a select is [name, opts] (name ""
\* when the tag has no name attribute); an option is [text, value].

ProductLabel == <<"C", "R">>        \* "Call Reports -- Single Period"

\* opt.get_text(" ", strip=True)
OptText(o) == Strip(o.text)

Ok(v) == [ok |-> TRUE, val |-> v]
Err(kind) == [ok |-> FALSE, val |-> kind]

\* contains_text in text, for the product label (a two-character needle here)
ContainsProduct(t) ==
    \E i \in 1..(Len(t) - 1) : SubSeq(t, i, i + 1) = ProductLabel

\* _find_select_by_option_contains(soup, "Call Reports -- Single Period")
FindSelectByOptionContains(page) ==
    LET hits == {i \in 1..Len(page.selects) :
                    /\ page.selects[i].name # ""
                    /\ \E k \in 1..Len(page.selects[i].opts) :
                           ContainsProduct(OptText(page.selects[i].opts[k]))}
    IN IF hits = {} THEN Err("RuntimeError")
       ELSE Ok(page.selects[CHOOSE i \in hits : \A j \in hits : i <= j].name)

\* soup.find("select", {"name": select_name}): index of the first such select
FindSelect(page, name) ==
    LET hits == {i \in 1..Len(page.selects) : page.selects[i].name = name}
    IN IF hits = {} THEN 0 ELSE CHOOSE i \in hits : \A j \in hits : i <= j

\* _option_value_by_visible_text(soup, select_name, visible_text)
OptionValueByVisibleText(page, name, text) ==
    LET si == FindSelect(page, name) IN
    IF si = 0 THEN Err("RuntimeError")
    ELSE LET opts == page.selects[si].opts
             hits == {k \in 1..Len(opts) : OptText(opts[k]) = text}
         IN IF hits = {} THEN Err("RuntimeError")
            ELSE Ok(opts[CHOOSE k \in hits : \A j \in hits : k <= j].value)

\* norm() of _option_value_match_period
NormIdentity(s) == Strip(s)

Norm(s) ==
    LET parts == Split(Strip(s), "/") IN
    IF Len(parts) = 3
    THEN IF IntOk(parts[1]) /\ IntOk(parts[2])
         THEN IntStr(IntVal(parts[1])) \o <<"/">> \o IntStr(IntVal(parts[2]))
              \o <<"/">> \o parts[3]
         ELSE Strip(s)
    ELSE Strip(s)

MatchInOptsFirst(opts, period_text) ==
    IF opts = <<>> THEN Err("RuntimeError")
    ELSE Ok([text |-> OptText(opts[1]), value |-> opts[1].value])

\* the option loop of _option_value_match_period over a select's options
MatchInOpts(opts, period_text) ==
    LET target_norm == Norm(Strip(period_text))
        hits == {k \in 1..Len(opts) :
                    \/ OptText(opts[k]) = Strip(period_text)
                    \/ Norm(OptText(opts[k])) = target_norm}
    IN IF hits = {} THEN Err("RuntimeError")
       ELSE LET k == CHOOSE k \in hits : \A j \in hits : k <= j
            IN Ok([text |-> OptText(opts[k]), value |-> opts[k].value])

\* _option_value_match_period(soup, select_name, period_text)
OptionValueMatchPeriod(page, name, period_text) ==
    LET si == FindSelect(page, name) IN
    IF si = 0 THEN Err("RuntimeError")
    ELSE MatchInOpts(page.selects[si].opts, period_text)

\* _find_tab_delimited_radio(soup): a radio is [name, value, tab], tab meaning
\* that its parent text or its label[for] text contains "Tab Delimited"
FindTabDelimitedRadio(page) ==
    LET hits == {i \in 1..Len(page.radios) :
                    page.radios[i].name # "" /\ page.radios[i].tab}
    IN IF hits = {} THEN Err("RuntimeError")
       ELSE LET i == CHOOSE i \in hits : \A j \in hits : i <= j
            IN Ok([name |-> page.radios[i].name, value |-> page.radios[i].value])

\* str.lower() on the letters that occur in submit captions
LowerChar(c) ==
    IF c = "D" THEN "d" ELSE IF c = "L" THEN "l" ELSE IF c = "G" THEN "g" ELSE c

LowerIdentity(s) == s

Lower(s) == [i \in 1..Len(s) |-> LowerChar(s[i])]

DownloadWord == <<"d", "l">>        \* "download"

\* _find_download_submit(soup): a submit is [name, value]
FindDownloadSubmit(page) ==
    LET hits == {i \in 1..Len(page.submits) :
                    /\ Lower(Strip(page.submits[i].value)) = DownloadWord
                    /\ page.submits[i].name # ""}
    IN IF hits # {}
       THEN LET i == CHOOSE i \in hits : \A j \in hits : i <= j
            IN Ok([name |-> page.submits[i].name, value |-> page.submits[i].value])
       ELSE IF page.submits # <<>> /\ page.submits[1].name # ""
            THEN Ok([name |-> page.submits[1].name, value |-> page.submits[1].value])
            ELSE Err("RuntimeError")

\* _hidden_inputs(soup): the page's __VIEWSTATE token
HiddenInputs(page) == page.vs

\* ------------------------------------------------------ period discovery

DefaultMaxQuarters == 12

PeriodScanLimit == 40

IsDateOpt(t) == Count(t, "/") = 2 /\ Strip(t) # <<>>

OptTexts(sel) == [k \in 1..Len(sel.opts) |-> OptText(sel.opts[k])]

\* date_opts of a select
DateOpts(sel) == Filter(OptTexts(sel), IsDateOpt)

\* date_opts[:max_quarters]
LimitedNoTruncation(date_opts, max_quarters) == date_opts

Limited(date_opts, max_quarters) ==
    IF max_quarters >= 0 THEN Take(date_opts, max_quarters)
    ELSE Take(date_opts, IF Len(date_opts) + max_quarters > 0
                         THEN Len(date_opts) + max_quarters ELSE 0)

\* the select loop of get_available_quarters over the page after the
\* postback: the index of the first named select with date options, 0 if none
FindDateSelect(page) ==
    LET hits == {i \in 1..Len(page.selects) :
                    page.selects[i].name # "" /\ DateOpts(page.selects[i]) # <<>>}
    IN IF hits = {} THEN 0 ELSE CHOOSE i \in hits : \A j \in hits : i <= j

\* lines 144-154
ScanDateSelect(page, max_quarters) ==
    Bind(FindDateSelect(page), LAMBDA i :
        IF i = 0 THEN Err("RuntimeError")
        ELSE Bind(Limited(DateOpts(page.selects[i]), max_quarters), LAMBDA limited :
             IF limited = <<>> THEN Err("IndexError")   \* limited[-1] in the print
             ELSE Ok(limited)))

\* The requests of one session up to the page after the product postback
\* (lines 137-142 and 162-167): net says which request the transport fails.
\* Result: [ok, val (the page or the error), reqs, sent, product]; sent holds,
\* per request, the hidden form state its payload carries (<<>> for a GET).
NoHidden == <<>>

NavFail(kind, reqs, sent) ==
    [ok |-> FALSE, val |-> kind, reqs |-> reqs, sent |-> sent, product |-> <<>>]

\* payload = dict(_hidden_inputs(soup)) of _postback_select_product
PostbackHidden(soup) == HiddenInputs(soup)

SelectProduct(portal, net) ==
    IF net = "get_fail" THEN NavFail("HTTPError", <<"GET">>, <<NoHidden>>)
    ELSE Bind(FindSelectByOptionContains(portal.landing), LAMBDA pname :
         IF ~pname.ok THEN NavFail(pname.val, <<"GET">>, <<NoHidden>>)
         ELSE Bind(OptionValueByVisibleText(portal.landing, pname.val, ProductLabel),
              LAMBDA pval :
              IF ~pval.ok THEN NavFail(pval.val, <<"GET">>, <<NoHidden>>)
              ELSE IF net = "post_fail"
              THEN NavFail("HTTPError", <<"GET", "POSTBACK">>,
                           <<NoHidden, PostbackHidden(portal.landing)>>)
              ELSE [ok |-> TRUE, val |-> portal.after, reqs |-> <<"GET", "POSTBACK">>,
                    sent |-> <<NoHidden, PostbackHidden(portal.landing)>>,
                    product |-> <<pname.val, pval.val>>]))

\* get_available_quarters(max_quarters)
GetAvailableQuarters(portal, max_quarters, net) ==
    Bind(SelectProduct(portal, net), LAMBDA nav :
        IF ~nav.ok THEN [ok |-> FALSE, val |-> nav.val, reqs |-> nav.reqs,
                         sent |-> nav.sent]
        ELSE Bind(ScanDateSelect(nav.val, max_quarters), LAMBDA r :
                  [ok |-> r.ok, val |-> r.val, reqs |-> nav.reqs, sent |-> nav.sent]))

\* ----------------------------------------------------------- bulk fetch

\* the period-select loop of download_bulk_call_single_period
FindPeriodSelect(page) ==
    LET hits == {i \in 1..Len(page.selects) :
                    /\ page.selects[i].name # ""
                    /\ \E k \in 1..Len(Take(page.selects[i].opts, PeriodScanLimit)) :
                           Contains(OptText(page.selects[i].opts[k]), "/")}
    IN IF hits = {} THEN Err("RuntimeError")
       ELSE Ok(page.selects[CHOOSE i \in hits : \A j \in hits : i <= j].name)

\* download_bulk_call_single_period(period, out_zip).  net: which request the
\* transport fails ("stream_fail": the body breaks off after the file is opened).
\* Result: [ok, val, reqs, sent, file], file the state of out_zip afterwards as
\* far as this call wrote it: "none", "partial" or "full".
FetchFail(kind, nav, file) ==
    [ok |-> FALSE, val |-> kind, reqs |-> nav.reqs, sent |-> nav.sent, file |-> file]

DownloadHiddenStale(soup, soup2) == HiddenInputs(soup)

\* hidden2 = _hidden_inputs(soup2); payload = dict(hidden2)
DownloadHidden(soup, soup2) == HiddenInputs(soup2)

\* the download POST appended to the requests of the session
WithDownload(nav, hidden) ==
    [reqs |-> Append(nav.reqs, "DOWNLOAD"), sent |-> Append(nav.sent, hidden)]

\* lines 177-196, on the page after the postback with the period control found
SubmitDownload(soup, soup2, period_select_name, period, net, nav) ==
    Bind(OptionValueMatchPeriod(soup2, period_select_name, period), LAMBDA m :
        IF ~m.ok THEN FetchFail(m.val, nav, "none")
        ELSE IF ~FindTabDelimitedRadio(soup2).ok \/ ~FindDownloadSubmit(soup2).ok
        THEN FetchFail("RuntimeError", nav, "none")
        ELSE Bind(WithDownload(nav, DownloadHidden(soup, soup2)), LAMBDA dl :
             IF net = "dl_fail" THEN FetchFail("HTTPError", dl, "none")
             ELSE IF net = "stream_fail" THEN FetchFail("HTTPError", dl, "partial")
             ELSE [ok |-> TRUE, val |-> m.val.text, reqs |-> dl.reqs, sent |-> dl.sent,
                   file |-> "full"]))

DownloadBulkCallSinglePeriod(portal, period, net) ==
    Bind(SelectProduct(portal, net), LAMBDA nav :
        IF ~nav.ok THEN FetchFail(nav.val, nav, "none")
        ELSE Bind(FindPeriodSelect(nav.val), LAMBDA psel :
             IF ~psel.ok THEN FetchFail(psel.val, nav, "none")
             ELSE SubmitDownload(portal.landing, nav.val, psel.val, period, net, nav)))

\* ------------------------------------------------------------ converter
\* A table file is [stem, ok]: ok says whether pd.read_csv / to_parquet
\* succeed on it.

Letters == {"R", "C", "I", "A", "l", "d", "D", "L"}

\* c.isalnum()
IsAlnum(c) == IsDigit(c) \/ c \in Letters

\* "".join(c if c.isalnum() else "_" for c in schedule_name)
SafeName(stem) == [i \in 1..Len(stem) |-> IF IsAlnum(stem[i]) THEN stem[i] ELSE "_"]

\* process_all_schedules(extract_dir, quarter, out_dir): the names written
ProcessAllSchedules(txt_files) == {SafeName(f.stem) : f \in {g \in txt_files : g.ok}}

\* The converter in detail.  A .txt file is [stem, ok, cols, rows]: ok says
\* whether pd.read_csv parses it, cols are its header names, rows the number
\* of data rows.  A written file is [name, from, cols, rows, reporting_period]:
\* from is the stem whose data it holds, reporting_period the value that
\* fills the column of that name.

\* df["reporting_period"] = quarter: a column of that name is overwritten in
\* place, otherwise the column is appended
SetReportingPeriod(cols) ==
    IF \E i \in 1..Len(cols) : cols[i] = "reporting_period" THEN cols
    ELSE Append(cols, "reporting_period")

\* the try block for one parsed file: what df.to_parquet(out_path) writes
ConvertOne(f, quarter) ==
    [name |-> SafeName(f.stem), from |-> f.stem, cols |-> SetReportingPeriod(f.cols),
     rows |-> f.rows, reporting_period |-> quarter]

\* df.to_parquet(out_path): a file of the same name is replaced
ToParquet(dir, out) == {o \in dir : o.name # out.name} \cup {out}

AfterFileErrorAbort(i, n) == n + 1

\* except Exception: print, then the for loop takes the next file
AfterFileError(i, n) == i + 1

\* the for loop over txt_files from position i; acc is [written, dir]
RECURSIVE ConvertFrom(_, _, _, _)
ConvertFrom(txt_files, i, quarter, acc) ==
    IF i > Len(txt_files) THEN acc
    ELSE IF txt_files[i].ok
         THEN ConvertFrom(txt_files, i + 1, quarter,
                  [written |-> Append(acc.written, SafeName(txt_files[i].stem)),
                   dir     |-> ToParquet(acc.dir, ConvertOne(txt_files[i], quarter))])
         ELSE ConvertFrom(txt_files, AfterFileError(i, Len(txt_files)), quarter, acc)

\* process_all_schedules over the files in glob order: the list returned and
\* the content of out_dir
ProcessSchedulesInOrder(txt_files, quarter) ==
    ConvertFrom(txt_files, 1, quarter, [written |-> <<>>, dir |-> {}])

\* ------------------------------------------------------------ the portal

\* Labels the portal may show in its period control; period is the quarter a
\* label denotes ("none": not a date)
LabelPool == <<
    [text |-> <<"0", "3", "/", "0", "5", "/", "2", "4">>, period |-> "A"],
    [text |-> <<"3", "/", "5", "/", "2", "4">>,           period |-> "A"],
    [text |-> <<"0", "3", "/", "5", "/", "2", "4">>,      period |-> "A"],
    [text |-> <<"0", "6", "/", "3", "0", "/", "2", "4">>, period |-> "B"],
    [text |-> <<"6", "/", "3", "0", "/", "2", "4">>,      period |-> "B"],
    [text |-> <<"A", "l", "l">>,                          period |-> "none"],
    [text |-> <<"3", "/", "5", "/", "2", "5">>,           period |-> "C"] >>

PoolIdx == 1..Len(LabelPool)

\* the options of a period control showing the pool labels ixs, in that order;
\* each option's value is its position in the control
OptionsOf(ixs) == [k \in 1..Len(ixs) |-> [text |-> LabelPool[ixs[k]].text, value |-> k]]

ProductSelect ==
    [name |-> "prod", opts |-> <<[text |-> <<"A", "l", "l">>, value |-> 0],
                                 [text |-> ProductLabel, value |-> 1]>>]

LandingPage ==
    [selects |-> <<ProductSelect>>, radios |-> <<>>, submits |-> <<>>, vs |-> 1]

\* the landing page of a changed portal: no control offers the product
LandingNoProduct ==
    [selects |-> <<[name |-> "prod", opts |-> <<[text |-> <<"A", "l", "l">>, value |-> 0]>>]>>,
     radios |-> <<>>, submits |-> <<>>, vs |-> 1]

\* the page after the product postback, its period control showing ixs
PeriodPage(ixs) ==
    [selects |-> <<ProductSelect, [name |-> "period", opts |-> OptionsOf(ixs)]>>,
     radios  |-> <<[name |-> "fmt", value |-> "csv", tab |-> FALSE],
                   [name |-> "fmt", value |-> "tsv", tab |-> TRUE]>>,
     submits |-> <<[name |-> "btn", value |-> <<"D", "l">>]>>,
     vs |-> 2]

PortalOf(ixs) == [landing |-> LandingPage, after |-> PeriodPage(ixs)]

\* ---------------------------------------------------------------- state

VARIABLES
    pc,            \* position of run(): "idle", "extract", "upload", "save"
    now,           \* the clock: the number of runs started
    stateFile,     \* state.json: [exists, uploaded_quarters, last_run]
    zips,          \* data/raw/ffiec_zips: slug -> Absent or the archive
    extractDirs,   \* data/raw/ffiec_extracted: slug -> Absent or its .txt files
    parquetDirs,   \* data/raw/ffiec_parquet: slug -> Absent or its .parquet names
    uploaded,      \* run(): uploaded
    new_quarters,  \* download_and_process_new_quarters: new_quarters
    idx,           \* ... its loop index
    newly_done,    \* ... newly_done (run(): newly_extracted)
    upIdx,         \* upload_quarters: position in quarter_slugs
    successful,    \* upload_quarters: successful
    reqs,          \* requests issued in the current run: <<phase, kind, subject>>
    steps,         \* steps of the current run: <<step, slug, outcome>>
    startDisk,     \* the artifacts present when the current run started
    outcome,       \* how the latest run ended, "running" while it runs
    failedAt,      \* upload_quarters: index at which the loop broke, else 0
    everOk,        \* <<step, slug>> that completed successfully in some run
    notReady,      \* slugs whose latest conversion wrote no file
    fOpts,         \* form check: pool labels shown by the period control
    fOut,          \* form check: the last call and its result
    cFiles,        \* converter check: the .txt files of extract_dir, in glob order
    fPage,         \* page check: the page the form helpers are run on
    fLog           \* session check: the exchanges of the calls made so far

pipeVars == <<pc, now, stateFile, zips, extractDirs, parquetDirs, uploaded,
              new_quarters, idx, newly_done, upIdx, successful, reqs, steps,
              startDisk, outcome, failedAt, everOk, notReady>>

auxVars == <<cFiles, fPage, fLog>>

formVars == <<fOpts, fOut, auxVars>>

vars == <<pipeVars, formVars>>

\* ---------------------------------------------------------------- bounds

MaxRuns == 3

MaxOpts == 3

MaxLimit == 3

MaxFiles == 3

MaxSelects == 2

MaxSubmits == 2

MaxCalls == 3

\* ------------------------------------------------ the form functions alone
\* A specification that calls get_available_quarters and
\* _option_value_match_period on every small period control.

RECURSIVE SeqsUpTo(_, _)
SeqsUpTo(S, n) ==
    IF n = 0 THEN {<<>>}
    ELSE LET shorter == SeqsUpTo(S, n - 1)
         IN shorter \cup {Append(q, x) : q \in {r \in shorter : Len(r) = n - 1}, x \in S}

\* an artifact that is not on disk
Absent == [exists |-> FALSE, valid |-> FALSE, files |-> {}]

\* a directory on disk holding files
Dir(files) == [exists |-> TRUE, valid |-> TRUE, files |-> files]

\* the portals a run may meet: three quarters, two quarters, a period control
\* without dates, a landing page without the product
Portals ==
    { PortalOf(<<7, 4, 1>>), PortalOf(<<4, 1>>), PortalOf(<<6>>),
      [landing |-> LandingNoProduct, after |-> PeriodPage(<<7, 4, 1>>)] }

\* quarter.replace("/", "-")
Slug(quarter) == Replace(quarter, "/", "-")

Slugs == {Slug(LabelPool[i].text) : i \in {1, 4, 7}}

\* what the portal may send as the archive of a quarter
GoodFile == [stem |-> <<"R", "C">>, ok |-> TRUE]
GoodFile2 == [stem |-> <<"R", "C", "A">>, ok |-> TRUE]
BadFile  == [stem |-> <<"R", "I">>, ok |-> FALSE]

Archives ==
    { [exists |-> TRUE, valid |-> FALSE, files |-> {}],
      [exists |-> TRUE, valid |-> TRUE,  files |-> {}],
      [exists |-> TRUE, valid |-> TRUE,  files |-> {BadFile}],
      [exists |-> TRUE, valid |-> TRUE,  files |-> {GoodFile, GoodFile2, BadFile}] }

\* an archive file whose download broke off
PartialArchive == [exists |-> TRUE, valid |-> FALSE, files |-> {}]

Exists(dir, s) == dir[s].exists

DiskNow == [zip |-> {s \in Slugs : Exists(zips, s)},
            ext |-> {s \in Slugs : Exists(extractDirs, s)},
            pq  |-> {s \in Slugs : Exists(parquetDirs, s)}]

PipeIdle ==
    /\ pc = "idle" /\ now = 0
    /\ stateFile = [exists |-> FALSE, uploaded_quarters |-> {}, last_run |-> 0]
    /\ zips = [s \in Slugs |-> Absent]
    /\ extractDirs = [s \in Slugs |-> Absent]
    /\ parquetDirs = [s \in Slugs |-> Absent]
    /\ uploaded = {} /\ new_quarters = <<>> /\ idx = 0 /\ newly_done = <<>>
    /\ upIdx = 0 /\ successful = <<>> /\ reqs = {} /\ steps = {}
    /\ startDisk = [zip |-> {}, ext |-> {}, pq |-> {}]
    /\ outcome = "none" /\ failedAt = 0 /\ everOk = {} /\ notReady = {}

NoPage == [selects |-> <<>>, radios |-> <<>>, submits |-> <<>>, vs |-> 0]

\* the variables of the other checks, unused
AuxIdle == cFiles = <<>> /\ fPage = NoPage /\ fLog = <<>>

FormInit ==
    /\ PipeIdle /\ AuxIdle
    /\ fOpts \in SeqsUpTo(PoolIdx, MaxOpts)
    /\ fOut = [op |-> "none"]

\* get_available_quarters(limit) against a portal showing fOpts
Discover ==
    /\ fOut.op = "none"
    /\ \E limit \in 0..MaxLimit, net \in {"ok", "get_fail", "post_fail"} :
         fOut' = [op |-> "discover", limit |-> limit, net |-> net,
                  res |-> GetAvailableQuarters(PortalOf(fOpts), limit, net)]
    /\ UNCHANGED <<fOpts, pipeVars, auxVars>>

\* _option_value_match_period for two requested labels against fOpts
Match ==
    /\ fOut.op = "none"
    /\ \E a \in PoolIdx, b \in PoolIdx :
         fOut' = [op |-> "match", a |-> a, b |-> b,
                  ra |-> OptionValueMatchPeriod(PeriodPage(fOpts), "period", LabelPool[a].text),
                  rb |-> OptionValueMatchPeriod(PeriodPage(fOpts), "period", LabelPool[b].text)]
    /\ UNCHANGED <<fOpts, pipeVars, auxVars>>

\* download_bulk_call_single_period for one requested label against a portal
\* showing fOpts
Fetch ==
    /\ fOut.op = "none"
    /\ \E a \in PoolIdx, net \in {"ok", "get_fail", "post_fail", "dl_fail", "stream_fail"} :
         fOut' = [op |-> "fetch", a |-> a, net |-> net,
                  res |-> DownloadBulkCallSinglePeriod(PortalOf(fOpts), LabelPool[a].text, net)]
    /\ UNCHANGED <<fOpts, pipeVars, auxVars>>

FormNext == Discover \/ Match \/ Fetch

SpecForm == FormInit /\ [][FormNext]_vars

\* C9: get_available_quarters(limit) returns at most limit periods, and what
\* it returns is the first labels, in the portal's order, among the date
\* labels the period control shows.
DateIdx == {k \in 1..Len(fOpts) : LabelPool[fOpts[k]].period # "none"}

\* the position in fOpts of the i-th date label
NthDate(i) == CHOOSE k \in DateIdx : Cardinality({j \in DateIdx : j <= k}) = i

C9_LimitAndPrefix ==
    (fOut.op = "discover" /\ fOut.res.ok) =>
        /\ Len(fOut.res.val) <= fOut.limit
        /\ Len(fOut.res.val) <= Cardinality(DateIdx)
        /\ \A i \in 1..Len(fOut.res.val) :
               fOut.res.val[i] = LabelPool[fOpts[NthDate(i)]].text

\* a call that truncated a control holding a non-date label before a date
C9_Witness ==
    /\ fOut.op = "discover" /\ fOut.res.ok
    /\ Len(fOut.res.val) = fOut.limit
    /\ Cardinality(DateIdx) > fOut.limit
    /\ \E k \in 1..Len(fOpts) : k \notin DateIdx /\ \E j \in DateIdx : k < j

\* C10: two requested labels that differ only in the zero-padding of month
\* and day resolve to the same offered option, and an option is found
\* whenever an offered one equals the request up to zero-padding.
SamePeriod(i, j) ==
    LabelPool[i].period # "none" /\ LabelPool[i].period = LabelPool[j].period

C10_PaddingTolerant ==
    fOut.op = "match" =>
        /\ SamePeriod(fOut.a, fOut.b) => fOut.ra = fOut.rb
        /\ (\E k \in 1..Len(fOpts) : SamePeriod(fOpts[k], fOut.a)) => fOut.ra.ok

\* both requests resolved to an option whose text is neither request
C10_Witness ==
    /\ fOut.op = "match" /\ fOut.a # fOut.b /\ SamePeriod(fOut.a, fOut.b)
    /\ fOut.ra.ok /\ fOut.ra = fOut.rb
    /\ fOut.ra.val.text # LabelPool[fOut.a].text
    /\ fOut.ra.val.text # LabelPool[fOut.b].text
    /\ fOut.ra.val.value > 1

\* the period control offers the label a, or a label of the same quarter
Offered(a) ==
    \E k \in 1..Len(fOpts) : fOpts[k] = a \/ SamePeriod(fOpts[k], a)

SelectPool == <<
    ProductSelect,
    [name |-> "period", opts |-> OptionsOf(<<4, 1>>)],
    [name |-> "unit",   opts |-> <<[text |-> <<"A", "/", "l">>, value |-> 1]>>],
    [name |-> "",       opts |-> OptionsOf(<<7>>)],
    [name |-> "older",  opts |-> OptionsOf(<<6, 7>>)] >>

\* the submit controls a page may hold
SubmitPool == <<
    [name |-> "btn", value |-> <<"D", "l">>],
    [name |-> "",    value |-> <<"d", "l">>],
    [name |-> "go",  value |-> <<"G", "o">>],
    [name |-> "",    value |-> <<"G", "o">>],
    [name |-> "b2",  value |-> <<" ", "d", "L", " ">>] >>

\* a page with the given selects and submits, and the portal's format radios
PageOf(selects, submits) ==
    [selects |-> selects, radios |-> PeriodPage(<<>>).radios, submits |-> submits, vs |-> 2]

Pages ==
    {PageOf([k \in 1..Len(ix) |-> SelectPool[ix[k]]], PeriodPage(<<>>).submits) :
        ix \in SeqsUpTo(1..Len(SelectPool), MaxSelects)}
    \cup
    {PageOf(PeriodPage(<<4, 1>>).selects, [k \in 1..Len(ix) |-> SubmitPool[ix[k]]]) :
        ix \in SeqsUpTo(1..Len(SubmitPool), MaxSubmits)}

PageInit ==
    /\ PipeIdle
    /\ fOpts = <<>> /\ fOut = [op |-> "none"] /\ cFiles = <<>> /\ fLog = <<>>
    /\ fPage \in Pages

\* the name of the control discovery reads its periods from
DateSelectName(page) ==
    IF FindDateSelect(page) = 0 THEN Err("RuntimeError")
    ELSE Ok(page.selects[FindDateSelect(page)].name)

\* lines 168-177 of the fetch: the period control, then the requested period
\* in it
LocatePeriod(page, period) ==
    Bind(FindPeriodSelect(page), LAMBDA psel :
        IF ~psel.ok THEN psel ELSE OptionValueMatchPeriod(page, psel.val, period))

\* discovery, then the period search of the fetch for every period it
\* returned, both on fPage as the page after the postback
Locate ==
    /\ fOut.op = "none"
    /\ \E found \in {ScanDateSelect(fPage, DefaultMaxQuarters)} :
         fOut' = [op |-> "locate", found |-> found,
                  disc |-> DateSelectName(fPage), fetch |-> FindPeriodSelect(fPage),
                  fetched |-> IF found.ok
                              THEN [i \in 1..Len(found.val) |->
                                      LocatePeriod(fPage, found.val[i])]
                              ELSE <<>>]
    /\ UNCHANGED <<fOpts, pipeVars, auxVars>>

\* _find_select_by_option_contains(soup, product) on fPage
Search ==
    /\ fOut.op = "none"
    /\ fOut' = [op |-> "search", res |-> FindSelectByOptionContains(fPage)]
    /\ UNCHANGED <<fOpts, pipeVars, auxVars>>

\* _find_download_submit(soup) on fPage
FindSubmit ==
    /\ fOut.op = "none"
    /\ fOut' = [op |-> "submit", res |-> FindDownloadSubmit(fPage)]
    /\ UNCHANGED <<fOpts, pipeVars, auxVars>>

PageNext == Locate \/ Search \/ FindSubmit

SpecPage == PageInit /\ [][PageNext]_vars

\* no control of fPage has an option containing the product label
NoProductControl == \A i \in 1..Len(fPage.selects) : fPage.selects[i] # ProductSelect

\* what discovery raises when no control has date options, what the period
\* match raises when no option matches, and an error of no particular kind
NoPeriodsFoundError == ScanDateSelect(NoPage, DefaultMaxQuarters).val

PeriodNotOfferedError == MatchInOpts(<<>>, LabelPool[1].text).val

GenericError == "RuntimeError"

\* C14: a control search over a page on which no option contains the target
\* text fails with an error of its own kind, which a caller can tell from the
\* no-periods error, the period-not-offered error and a generic error.
C14_ControlNotFoundDistinct ==
    (fOut.op = "search" /\ NoProductControl) =>
        /\ ~fOut.res.ok
        /\ fOut.res.val \notin {NoPeriodsFoundError, PeriodNotOfferedError, GenericError}

\* C17: the control discovery takes its periods from is the control fetch
\* selects as the period control, so every period discovery returned is
\* located by fetch on the same page.
C17_SameControl ==
    (fOut.op = "locate" /\ fOut.found.ok) =>
        /\ fOut.fetch = fOut.disc
        /\ \A i \in 1..Len(fOut.fetched) : fOut.fetched[i].ok

\* the positions of the named submits of fPage, and of those among them whose
\* caption is the download word up to case and surrounding blanks
Named == {i \in 1..Len(fPage.submits) : fPage.submits[i].name # ""}

NamedDownload ==
    {i \in Named : fPage.submits[i].value \in
                       {<<"D", "l">>, <<"d", "l">>, <<" ", "d", "L", " ">>}}

FirstOf(S) == CHOOSE i \in S : \A j \in S : i <= j

SubmitAt(i) == Ok([name |-> fPage.submits[i].name, value |-> fPage.submits[i].value])

\* C20 as stated: the first named submit captioned download is returned; if
\* there is none a submit of the page is returned, and the search fails only
\* when the page has no named submit at all.
C20_FailsOnlyWithoutNamedSubmit ==
    fOut.op = "submit" =>
        /\ NamedDownload # {} => fOut.res = SubmitAt(FirstOf(NamedDownload))
        /\ (NamedDownload = {} /\ Named # {}) => \E i \in Named : fOut.res = SubmitAt(i)
        /\ ~fOut.res.ok => Named = {}

\* C20, amended: the first named submit captioned download is returned; if
\* there is none the first submit of the page is returned when it is named,
\* and the search fails when the page has no submit or its first one has no
\* name.
C20_FallsBackToFirstSubmit ==
    fOut.op = "submit" =>
        /\ NamedDownload # {} => fOut.res = SubmitAt(FirstOf(NamedDownload))
        /\ NamedDownload = {} =>
              IF 1 \in Named THEN fOut.res = SubmitAt(1) ELSE ~fOut.res.ok

\* a caption matched through case and blanks behind another named submit, or
\* a fallback that failed although a later submit is named
C20_Witness ==
    /\ fOut.op = "submit" /\ Len(fPage.submits) = 2
    /\ \/ /\ fPage.submits[1].name = "go" /\ fPage.submits[2].name = "b2"
          /\ fOut.res.ok /\ fOut.res.val.name = "b2"
       \/ /\ NamedDownload = {} /\ 1 \notin Named /\ 2 \in Named /\ ~fOut.res.ok

\* ------------------------------------------------ portal sessions
\* A specification that makes discovery and fetch calls one after the other
\* and logs, per call, its session, its requests and the hidden form state
\* each request carried.

\* _make_session(): a new session, numbered after the sessions made before
MakeSession(made) == made + 1

\* the portal as it answers session sid: the n-th page it sends in a session
\* carries a hidden form state of its own
Serve(portal, sid) ==
    [landing |-> [portal.landing EXCEPT !.vs = <<sid, 1>>],
     after   |-> [portal.after   EXCEPT !.vs = <<sid, 2>>]]

SessInit ==
    /\ PipeIdle
    /\ fOpts = <<>> /\ fOut = [op |-> "none"] /\ cFiles = <<>> /\ fPage = NoPage
    /\ fLog = <<>>

CallEntry(sid, fn, r) ==
    [session |-> sid, fn |-> fn, ok |-> r.ok, reqs |-> r.reqs, sent |-> r.sent]

\* get_available_quarters() in a session of its own
SessDiscover ==
    /\ Len(fLog) < MaxCalls
    /\ \E portal \in Portals, net \in {"ok", "get_fail", "post_fail"} :
       \E sid \in {MakeSession(Len(fLog))} :
         fLog' = Append(fLog, CallEntry(sid, "discover",
                     GetAvailableQuarters(Serve(portal, sid), DefaultMaxQuarters, net)))
    /\ UNCHANGED <<fOpts, fOut, cFiles, fPage, pipeVars>>

\* download_bulk_call_single_period(period, out_zip) in a session of its own
SessFetch ==
    /\ Len(fLog) < MaxCalls
    /\ \E portal \in Portals, period \in {LabelPool[1].text, LabelPool[4].text},
          net \in {"ok", "get_fail", "post_fail", "dl_fail", "stream_fail"} :
       \E sid \in {MakeSession(Len(fLog))} :
         fLog' = Append(fLog, CallEntry(sid, "fetch",
                     DownloadBulkCallSinglePeriod(Serve(portal, sid), period, net)))
    /\ UNCHANGED <<fOpts, fOut, cFiles, fPage, pipeVars>>

SessNext == SessDiscover \/ SessFetch

SpecSess == SessInit /\ [][SessNext]_vars

\* C15: every call starts with a GET in a session no other call uses, and
\* every POST of a call carries the hidden form state of the page received
\* just before it in that session: the landing page for the product postback,
\* the page after the postback for the download.
C15_HiddenStateIsLatest ==
    \A c \in 1..Len(fLog) :
        /\ fLog[c].reqs[1] = "GET" /\ fLog[c].sent[1] = NoHidden
        /\ \A d \in 1..Len(fLog) : d # c => fLog[d].session # fLog[c].session
        /\ Len(fLog[c].sent) = Len(fLog[c].reqs)
        /\ \A i \in 2..Len(fLog[c].reqs) :
               /\ fLog[c].reqs[i] \in {"POSTBACK", "DOWNLOAD"}
               /\ fLog[c].sent[i] = <<fLog[c].session, i - 1>>

\* a discovery with its postback, then a fetch that sent its download POST
C15_Witness ==
    /\ Len(fLog) >= 2
    /\ fLog[1].fn = "discover" /\ fLog[1].ok /\ fLog[1].reqs = <<"GET", "POSTBACK">>
    /\ fLog[2].fn = "fetch" /\ fLog[2].ok
    /\ fLog[2].reqs = <<"GET", "POSTBACK", "DOWNLOAD">>

\* ------------------------------------------------- the converter alone
\* A specification that runs process_all_schedules on every small listing
\* of an extract directory.

\* the .txt files an extract directory may hold
FilePool == <<
    [stem |-> <<"R", "C">>,      ok |-> TRUE,  cols |-> <<"c1">>, rows |-> 2],
    [stem |-> <<"R", " ", "C">>, ok |-> TRUE,  cols |-> <<"c1", "c2">>, rows |-> 0],
    [stem |-> <<"R", "-", "C">>, ok |-> TRUE,  cols |-> <<"c1">>, rows |-> 1],
    [stem |-> <<"R", "I">>,      ok |-> FALSE, cols |-> <<>>, rows |-> 0],
    [stem |-> <<"R", "A">>,      ok |-> TRUE,  cols |-> <<"reporting_period", "c1">>, rows |-> 1] >>

\* the listings of a directory: its files are distinct, in any order
Listings ==
    {[k \in 1..Len(ix) |-> FilePool[ix[k]]] :
        ix \in {jx \in SeqsUpTo(1..Len(FilePool), MaxFiles) :
                    \A a, b \in 1..Len(jx) : a # b => jx[a] # jx[b]}}

ConvInit ==
    /\ PipeIdle
    /\ fOpts = <<>> /\ fOut = [op |-> "none"] /\ fPage = NoPage /\ fLog = <<>>
    /\ cFiles \in Listings

\* process_all_schedules(extract_dir, quarter, out_dir) on the listing cFiles
ConvertListing ==
    /\ fOut.op = "none"
    /\ \E q \in {LabelPool[1].text, LabelPool[4].text} :
         fOut' = [op |-> "convert", quarter |-> q,
                  res |-> ProcessSchedulesInOrder(cFiles, q)]
    /\ UNCHANGED <<fOpts, pipeVars, auxVars>>

ConvNext == ConvertListing

SpecConv == ConvInit /\ [][ConvNext]_vars

\* the well-formed files of the listing, in order
WellFormed == SelectSeq(cFiles, LAMBDA f : f.ok)

\* C11: a file that fails to convert does not stop the others: the returned
\* list holds one output per well-formed file of the listing, in order,
\* wherever the malformed files stand.
C11_FailureIsPerFile ==
    fOut.op = "convert" =>
        /\ Len(fOut.res.written) = Len(WellFormed)
        /\ \A k \in 1..Len(WellFormed) :
               /\ fOut.res.written[k] = SafeName(WellFormed[k].stem)
               /\ \E o \in fOut.res.dir : o.name = fOut.res.written[k]

\* a malformed file stood first and well-formed ones after it were converted
C11_Witness ==
    /\ fOut.op = "convert"
    /\ Len(cFiles) = 3 /\ ~cFiles[1].ok /\ cFiles[2].ok /\ cFiles[3].ok
    /\ Len(fOut.res.written) = 2

\* C12: a listing of one well-formed file of N rows gives exactly one output
\* of N rows whose columns are the source columns followed by one added
\* column reporting_period, filled with the supplied period.
C12_OneFileOneOutput ==
    (fOut.op = "convert" /\ Len(cFiles) = 1 /\ cFiles[1].ok) =>
        /\ Len(fOut.res.written) = 1
        /\ fOut.res.dir =
              {[name |-> fOut.res.written[1], from |-> cFiles[1].stem,
                cols |-> Append(cFiles[1].cols, "reporting_period"),
                rows |-> cFiles[1].rows, reporting_period |-> fOut.quarter]}

\* C16: the number of distinct files in out_dir equals the number of files
\* converted without error.
C16_OneOutputPerFile ==
    fOut.op = "convert" => Cardinality(fOut.res.dir) = Len(WellFormed)

\* ------------------------------------------------------------- pipeline

\* load_state()
LoadState ==
    IF stateFile.exists THEN stateFile
    ELSE [exists |-> FALSE, uploaded_quarters |-> {}, last_run |-> 0]

\* save_state(uploaded_quarters)
SaveState(uploaded_quarters) ==
    [exists |-> TRUE, uploaded_quarters |-> uploaded_quarters, last_run |-> now]

ReqSet(phase, rs, subject) == {<<phase, rs[i], subject>> : i \in 1..Len(rs)}

\* new_quarters = [q for q in available if q.replace("/", "-") not in already_processed]
NewQuartersNoFilter(available, already_processed) == available

NewQuarters(available, already_processed) ==
    LET IsNew(q) == Slug(q) \notin already_processed
    IN Filter(available, IsNew)

\* run() up to the first period of the loop: load_state, then
\* download_and_process_new_quarters up to line 289
StartRun ==
    /\ pc = "idle" /\ now < MaxRuns
    /\ now' = now + 1
    /\ uploaded' = LoadState.uploaded_quarters
    /\ \E portal \in Portals, net \in {"ok", "get_fail", "post_fail"} :
       \E d \in {GetAvailableQuarters(portal, DefaultMaxQuarters, net)} :
       \E fresh \in {IF d.ok THEN NewQuarters(Reverse(d.val), uploaded') ELSE <<>>} :
            /\ reqs' = ReqSet("discover", d.reqs, <<>>)
            /\ new_quarters' = fresh
            /\ IF ~d.ok
               THEN /\ pc' = "idle" /\ idx' = 0
                    /\ outcome' = IF d.val = "HTTPError" THEN "aborted_transport"
                                  ELSE "aborted_form"
               ELSE IF fresh = <<>>
                    THEN pc' = "idle" /\ outcome' = "nothing_new" /\ idx' = 0
                    ELSE pc' = "extract" /\ outcome' = "running" /\ idx' = 1
    /\ newly_done' = <<>> /\ upIdx' = 0 /\ successful' = <<>> /\ failedAt' = 0
    /\ steps' = {} /\ startDisk' = DiskNow
    /\ UNCHANGED <<stateFile, zips, extractDirs, parquetDirs, everOk, notReady, formVars>>

\* extract_zip(zip_path, out_dir): the directory afterwards, and success
ExtractZip(zip) ==
    IF zip.valid THEN [dir |-> Dir(zip.files), ok |-> TRUE]
    ELSE [dir |-> Dir({}), ok |-> FALSE]      \* out_dir.mkdir ran before ZipFile raised

\* process_all_schedules as the loop sees it: the directory afterwards (made by
\* out_dir.mkdir whatever is written) and the list written
Convert(txt_files) ==
    [dir |-> Dir(ProcessAllSchedules(txt_files)), written |-> ProcessAllSchedules(txt_files)]

\* lines 298, 307, 316: a step runs when its artifact is not on disk
NeedStepAlways(dir, s) == TRUE

NeedStep(dir, s) == ~Exists(dir, s)

\* lines 317-320: the period counts as converted unless the conversion that
\* just ran wrote nothing
ConversionReadyAlways(needCv, written) == TRUE

ConversionReady(needCv, written) == ~(needCv /\ written = {})

\* One iteration of the loop of download_and_process_new_quarters (lines
\* 291-325) for quarter, given what the portal does during the fetch.
\* Result: the three artifacts afterwards, the steps taken, the requests, and
\* whether the slug is appended to newly_done.
\* lines 316-324, with the archive and the extract directory settled
ConvertStage(s, zip1, ext1, st, rq) ==
    IF ~NeedStep(parquetDirs, s)
    THEN [zip |-> zip1, ext |-> ext1, pq |-> parquetDirs[s],
          steps |-> st \cup {<<"convert", s, "skipped">>}, reqs |-> rq,
          done |-> ConversionReady(FALSE, {})]
    ELSE Bind(Convert(ext1.files), LAMBDA cv :
         [zip |-> zip1, ext |-> ext1, pq |-> cv.dir,
          steps |-> st \cup {<<"convert", s, IF cv.written # {} THEN "ok" ELSE "fail">>},
          reqs |-> rq, done |-> ConversionReady(TRUE, cv.written)])

\* lines 307-324, with the archive settled
ExtractStage(s, zip1, st, rq) ==
    IF ~NeedStep(extractDirs, s)
    THEN ConvertStage(s, zip1, extractDirs[s], st \cup {<<"extract", s, "skipped">>}, rq)
    ELSE Bind(ExtractZip(zip1), LAMBDA ex :
         IF ~ex.ok
         THEN [zip |-> zip1, ext |-> ex.dir, pq |-> parquetDirs[s],
               steps |-> st \cup {<<"extract", s, "fail">>}, reqs |-> rq, done |-> FALSE]
         ELSE ConvertStage(s, zip1, ex.dir, st \cup {<<"extract", s, "ok">>}, rq))

\* the archive file after a fetch that wrote it "full", "partial" or not at all
ZipAfter(file, archive) ==
    IF file = "full" THEN archive
    ELSE IF file = "partial" THEN PartialArchive
    ELSE Absent

LoopBody(quarter, portal, net, archive) ==
    Bind(Slug(quarter), LAMBDA s :
        IF ~NeedStep(zips, s)
        THEN ExtractStage(s, zips[s], {<<"download", s, "skipped">>}, {})
        ELSE Bind(DownloadBulkCallSinglePeriod(portal, quarter, net), LAMBDA dl :
             IF ~dl.ok
             THEN [zip |-> ZipAfter(dl.file, archive), ext |-> extractDirs[s],
                   pq |-> parquetDirs[s], steps |-> {<<"download", s, "fail">>},
                   reqs |-> ReqSet("fetch", dl.reqs, quarter), done |-> FALSE]
             ELSE ExtractStage(s, ZipAfter(dl.file, archive), {<<"download", s, "ok">>},
                               ReqSet("fetch", dl.reqs, quarter))))

Nets == {"ok", "get_fail", "post_fail", "dl_fail", "stream_fail"}

\* what the portal does during the fetch of slug s: it is not contacted when
\* the archive is on disk
FetchInputs(s) ==
    IF NeedStep(zips, s) THEN Portals \X Nets \X Archives
    ELSE {<<PortalOf(<<7, 4, 1>>), "ok", PartialArchive>>}

\* one period of the loop of download_and_process_new_quarters
ProcessQuarter ==
    /\ pc = "extract" /\ idx <= Len(new_quarters)
    /\ \E inp \in FetchInputs(Slug(new_quarters[idx])) :
       \E r \in {LoopBody(new_quarters[idx], inp[1], inp[2], inp[3])} :
         LET s == Slug(new_quarters[idx])
         IN /\ zips' = [zips EXCEPT ![s] = r.zip]
            /\ extractDirs' = [extractDirs EXCEPT ![s] = r.ext]
            /\ parquetDirs' = [parquetDirs EXCEPT ![s] = r.pq]
            /\ steps' = steps \cup r.steps
            /\ reqs' = reqs \cup r.reqs
            /\ everOk' = everOk \cup {<<x[1], x[2]>> : x \in {y \in r.steps : y[3] = "ok"}}
            /\ notReady' = IF <<"convert", s, "fail">> \in r.steps THEN notReady \cup {s}
                            ELSE IF <<"convert", s, "ok">> \in r.steps THEN notReady \ {s}
                            ELSE notReady
            /\ newly_done' = IF r.done THEN Append(newly_done, s) ELSE newly_done
    /\ idx' = idx + 1
    /\ UNCHANGED <<pc, now, stateFile, uploaded, new_quarters, upIdx, successful,
                   startDisk, outcome, failedAt, formVars>>

\* download_and_process_new_quarters returns newly_done; run() lines 58-62
FinishExtract ==
    /\ pc = "extract" /\ idx > Len(new_quarters)
    /\ IF newly_done = <<>>
       THEN pc' = "idle" /\ outcome' = "nothing_new" /\ upIdx' = 0
       ELSE pc' = "upload" /\ outcome' = "running" /\ upIdx' = 1
    /\ UNCHANGED <<now, stateFile, zips, extractDirs, parquetDirs, uploaded,
                   new_quarters, idx, newly_done, successful, reqs, steps,
                   startDisk, failedAt, everOk, notReady, formVars>>

UploadQuarterToStorageLenient(files, placed) == [raised |-> FALSE, n |-> placed]

\* upload_quarter_to_storage(quarter_slug) when placed of its files are
\* uploaded before an upload raises (placed = all of them: none raises).
\* Result: [raised, n]
UploadQuarterToStorage(files, placed) ==
    IF files = {} THEN [raised |-> FALSE, n |-> 0]
    ELSE IF placed < Cardinality(files) THEN [raised |-> TRUE, n |-> placed]
    ELSE [raised |-> FALSE, n |-> Cardinality(files)]

\* what happened to the files of a period in the bucket: "none" (nothing to
\* upload), "ok" (all placed), "partial" (some placed, then a failure),
\* "fail" (the first upload failed)
UploadVerdict(files, placed) ==
    IF files = {} THEN "none"
    ELSE IF placed = Cardinality(files) THEN "ok"
    ELSE IF placed > 0 THEN "partial" ELSE "fail"

AllUploadedOnlyNew(old, newly_uploaded) == Range(newly_uploaded)

\* run() lines 68-69: all_uploaded = sorted(uploaded | set(newly_uploaded))
AllUploaded(old, newly_uploaded) == old \cup Range(newly_uploaded)

\* the except branch of upload_quarters: break
AfterFailureContinue(i, n) == IF i < n THEN "upload" ELSE "save"

AfterFailure(i, n) == "save"

\* one period of the loop of upload_quarters (lines 80-94)
UploadQuarter ==
    /\ pc = "upload" /\ upIdx <= Len(newly_done)
    /\ LET q == newly_done[upIdx]
           files == parquetDirs[q].files
       IN \E placed \in 0..Cardinality(files) :
          \E r \in {UploadQuarterToStorage(files, placed)} :
            /\ reqs' = reqs \cup {<<"upload", UploadVerdict(files, placed), q>>}
            /\ IF r.raised
               THEN /\ failedAt' = upIdx
                    /\ successful' = successful
                    /\ pc' = AfterFailure(upIdx, Len(newly_done))
               ELSE /\ failedAt' = failedAt
                    /\ successful' = IF r.n > 0 THEN Append(successful, q) ELSE successful
                    /\ pc' = IF upIdx < Len(newly_done) THEN "upload" ELSE "save"
    /\ upIdx' = upIdx + 1
    /\ UNCHANGED <<now, stateFile, zips, extractDirs, parquetDirs, uploaded,
                   new_quarters, idx, newly_done, steps, startDisk, outcome,
                   everOk, notReady, formVars>>

SaveAndFinish ==
    /\ pc = "save"
    /\ stateFile' = SaveState(AllUploaded(uploaded, successful))
    /\ pc' = "idle" /\ outcome' = "saved"
    /\ UNCHANGED <<now, zips, extractDirs, parquetDirs, uploaded, new_quarters,
                   idx, newly_done, upIdx, successful, reqs, steps, startDisk,
                   failedAt, everOk, notReady, formVars>>

Init == PipeIdle /\ AuxIdle /\ fOpts = <<>> /\ fOut = [op |-> "none"]

Next == StartRun \/ ProcessQuarter \/ FinishExtract \/ UploadQuarter \/ SaveAndFinish

Spec == Init /\ [][Next]_vars

\* ---------------------------------------------------------------- claims

\* the step ran in the current run
Executed(step, s) == <<step, s, "ok">> \in steps \/ <<step, s, "fail">> \in steps

\* the new quarters whose loop iteration is over in the current run
Handled == {new_quarters[i] : i \in 1..(idx - 1)}

FetchReqs(q) == {r \in reqs : r[1] = "fetch" /\ r[3] = q}

UploadCalls(s) == {r \in reqs : r[1] = "upload" /\ r[3] = s}

\* C1: when the upload of period B raises after period A of the same list
\* was uploaded, the state saved at the end of the run holds A and not B, no
\* upload is called for a period after B, and everything that was in the
\* state before the run is still in it.
C1_UploadFailureHalts ==
    (outcome = "saved" /\ failedAt > 0) =>
        /\ \A i \in 1..(failedAt - 1) :
               <<"upload", "ok", newly_done[i]>> \in reqs
                   => newly_done[i] \in stateFile.uploaded_quarters
        /\ newly_done[failedAt] \notin stateFile.uploaded_quarters
        /\ \A j \in (failedAt + 1)..Len(newly_done) : UploadCalls(newly_done[j]) = {}
        /\ uploaded \subseteq stateFile.uploaded_quarters

\* a saved run in which A was uploaded, B failed and a third period followed
C1_Witness ==
    /\ outcome = "saved" /\ failedAt = 2 /\ Len(newly_done) = 3
    /\ <<"upload", "ok", newly_done[1]>> \in reqs
    /\ <<"upload", "fail", newly_done[2]>> \in reqs
    /\ newly_done[1] \in stateFile.uploaded_quarters

\* C2: a run issues no fetch request and no upload for a period whose slug
\* was in the state's uploaded set when the run started.
C2_NoCallsForUploaded ==
    \A r \in reqs :
        /\ r[1] = "fetch" => Slug(r[3]) \notin uploaded
        /\ r[1] = "upload" => r[3] \notin uploaded

\* a run that fetched and uploaded a later quarter while the portal still
\* offered the quarter already in the state, whose artifacts are on disk
C2_Witness ==
    /\ Slug(LabelPool[1].text) \in uploaded
    /\ Exists(zips, Slug(LabelPool[1].text))
    /\ \E r \in reqs : r[1] = "fetch" /\ r[2] = "DOWNLOAD"
    /\ \E r \in reqs : r[1] = "upload"
    /\ outcome = "saved"

\* C3: a period whose latest conversion wrote no file is neither in the list
\* returned by download_and_process_new_quarters nor recorded as processed,
\* in that run and in every later run.
C3_NotReadyNeverReturned ==
    \A s \in notReady : s \notin Range(newly_done) /\ s \notin stateFile.uploaded_quarters

\* C4: a run skips the download or the extraction of a period as already
\* done only if that step completed successfully in an earlier run.
C4_SkipOnlyAfterSuccess ==
    \A x \in steps :
        (x[3] = "skipped" /\ x[1] \in {"download", "extract"}) => <<x[1], x[2]>> \in everOk

\* C5: a mismatch of the upstream form (control not found, no periods,
\* period not offered) never aborts the run.
C5_FormMismatchNeverAborts == outcome # "aborted_form"

\* C6: a failed download, extraction or conversion of one period leaves the
\* period out of the returned list, is not tried again in the run, and every
\* period of new_quarters is still processed.
LoopOver == pc \in {"upload", "save"} \/ (pc = "idle" /\ outcome \in {"saved", "nothing_new"})

C6_FailureSkipsPeriodOnly ==
    /\ \A x \in steps : x[3] = "fail" =>
           /\ x[2] \notin Range(newly_done)
           /\ <<x[1], x[2], "ok">> \notin steps
           /\ x[1] = "download" => ~Executed("extract", x[2])
           /\ x[1] \in {"download", "extract"} => ~Executed("convert", x[2])
    /\ LoopOver => \A i \in 1..Len(new_quarters) :
           \E o \in {"ok", "fail", "skipped"} :
               <<"download", Slug(new_quarters[i]), o>> \in steps

\* the loop ended after a period failed and a later period was converted
C6_Witness ==
    /\ LoopOver
    /\ \E i \in 1..Len(new_quarters), j \in 1..Len(new_quarters) :
         /\ i < j
         /\ \E st \in {"download", "extract", "convert"} :
                <<st, Slug(new_quarters[i]), "fail">> \in steps
         /\ <<"convert", Slug(new_quarters[j]), "ok">> \in steps
         /\ Slug(new_quarters[j]) \in Range(newly_done)

\* C7 as stated: for every new period of a run, each of download, extract
\* and convert is executed if and only if its artifact is absent.
C7_StepIffArtifactAbsent ==
    \A q \in Handled :
        /\ Executed("download", Slug(q)) <=> Slug(q) \notin startDisk.zip
        /\ Executed("extract", Slug(q)) <=> Slug(q) \notin startDisk.ext
        /\ Executed("convert", Slug(q)) <=> Slug(q) \notin startDisk.pq

\* C7 amended: a step is executed if and only if its artifact is absent and
\* no earlier step of that period failed in this run; a period whose three
\* artifacts exist is returned for upload with no step and no request.
C7_StepIffAbsentAndReached ==
    \A q \in Handled :
        /\ Executed("download", Slug(q)) <=> Slug(q) \notin startDisk.zip
        /\ Executed("extract", Slug(q)) <=>
               (Slug(q) \notin startDisk.ext /\ <<"download", Slug(q), "fail">> \notin steps)
        /\ Executed("convert", Slug(q)) <=>
               /\ Slug(q) \notin startDisk.pq
               /\ <<"download", Slug(q), "fail">> \notin steps
               /\ <<"extract", Slug(q), "fail">> \notin steps
        /\ (Slug(q) \in startDisk.zip \cap startDisk.ext \cap startDisk.pq) =>
               /\ Slug(q) \in Range(newly_done)
               /\ FetchReqs(q) = {}

\* a later run that re-offers a fully staged period and resumes another one
\* at its extraction
C7_Witness ==
    /\ now >= 2
    /\ \E q \in Handled :
         /\ Slug(q) \in startDisk.zip \cap startDisk.ext \cap startDisk.pq
         /\ Slug(q) \in Range(newly_done)
    /\ \E q \in Handled :
         /\ Slug(q) \in startDisk.zip /\ Slug(q) \notin startDisk.ext
         /\ Executed("extract", Slug(q)) /\ ~Executed("download", Slug(q))

\* C8: every run that reaches its end has written the state record.
C8_StateWrittenAtEnd ==
    outcome \in {"saved", "nothing_new"} => (stateFile.exists /\ stateFile.last_run = now)


\* C18: the uploaded set of the state file only grows, and a write of the
\* state file adds only slugs that upload_quarters returned in that run.
C18_ProcessedSetOnlyGrows ==
    [][/\ stateFile.uploaded_quarters \subseteq stateFile'.uploaded_quarters
       /\ (stateFile'.uploaded_quarters \ stateFile.uploaded_quarters)
              \subseteq Range(successful)]_vars

\* a later run that saved a new period beside an older one, after an upload
\* of that run had failed
C18_Witness ==
    /\ outcome = "saved" /\ uploaded # {} /\ successful # <<>> /\ failedAt > 0
    /\ uploaded \subseteq stateFile.uploaded_quarters
    /\ stateFile.uploaded_quarters # uploaded

====
